---- MODULE Spec2Model ----
(***************************************************************************)
(* Model of weather-stealer-usa-3000: run_weather_ui fetches forward       *)
(* geocoding, forecast and reverse geocoding data, then _get_query_results *)
(* scans a clamped window of forecast periods for each query and keeps the *)
(* running maximum or minimum with its start time.                         *)
(*                                                                         *)
(* Numbers.  Python floats are modelled in fixed point: a value is a       *)
(* record [n, d] standing for n / (d * K) with K = 10^4; d is 1 for every  *)
(* value but a Celsius temperature, for which d is 9, so that              *)
(* (f - 32) * (5 / 9) is exact and strictly increasing, as it is on the    *)
(* doubles the program meets.  Products are truncated to 1/K.              *)
(*                                                                         *)
(* Strings.  A string that the program parses is a sequence of             *)
(* one-character strings.  None is the empty sequence << >>, a present     *)
(* value v is << v >>.                                                     *)
(***************************************************************************)
EXTENDS Integers, Sequences, FiniteSets, TLC

VARIABLES pc, raised, weather_queries, fwd_geocoding_data, target_location,
          forecast_data, forecast_location, rev_geocoding_data,
          forecast_location_address, api_used, fetch_log, output,
          query_results, qi, call, scanned, returned, geo

vars == <<pc, raised, weather_queries, fwd_geocoding_data, target_location,
          forecast_data, forecast_location, rev_geocoding_data,
          forecast_location_address, api_used, fetch_log, output,
          query_results, qi, call, scanned, returned, geo>>

----------------------------------------------------------------------------
(* Bounds of the model. *)

MaxPeriods == 3

MaxQueries == 2

MaxVertices == 5

----------------------------------------------------------------------------
(* Fixed-point arithmetic standing for Python's float arithmetic. *)

K == 10000

None == << >>

Some(v) == << v >>

Min(a, b) == IF a < b THEN a ELSE b

Abs(a) == IF a < 0 THEN 0 - a ELSE a

Sign(a) == IF a < 0 THEN 0 - 1 ELSE 1

\* (a * b) / K truncated toward zero, computed in parts so that no
\* intermediate product leaves 32 bits.
MulK(a, b) ==
    LET x == Abs(a)
        y == Abs(b)
        x1 == x \div K
        x0 == x % K
        y1 == y \div K
        y0 == y % K
        m == x1 * y1 * K + x1 * y0 + x0 * y1 + ((x0 * y0) \div K)
    IN  Sign(a) * Sign(b) * m

Val(n, d) == [n |-> n, d |-> d]

FromInt(i) == Val(i * K, 1)

\* Python's  a > b  and  a < b  on two floats.
Gt(a, b) == a.n * b.d > b.n * a.d

Lt(a, b) == a.n * b.d < b.n * a.d

Ge(a, b) == ~Lt(a, b)

Le(a, b) == ~Gt(a, b)

\* round(n / q) to the nearest integer, for  f'{x:.4f}'.
RoundDiv(n, q) ==
    LET a == Abs(n)
        r == (2 * a + q) \div (2 * q)
    IN  Sign(n) * r

----------------------------------------------------------------------------
(* Strings and float(). *)

Digits == {"0", "1", "2", "3", "4", "5", "6", "7", "8", "9"}

DigitVal(c) ==
    CASE c = "0" -> 0 [] c = "1" -> 1 [] c = "2" -> 2 [] c = "3" -> 3
      [] c = "4" -> 4 [] c = "5" -> 5 [] c = "6" -> 6 [] c = "7" -> 7
      [] c = "8" -> 8 [] c = "9" -> 9

IsDigits(s) == Len(s) > 0 /\ \A i \in 1..Len(s) : s[i] \in Digits

RECURSIVE DigitsValue(_)
DigitsValue(s) ==
    IF s = << >> THEN 0
    ELSE 10 * DigitsValue(SubSeq(s, 1, Len(s) - 1)) + DigitVal(s[Len(s)])

Pow10(k) == CASE k = 0 -> 1 [] k = 1 -> 10 [] k = 2 -> 100 [] k = 3 -> 1000
              [] k = 4 -> 10000

\* Index of the first occurrence of c in s, or Len(s) + 1.
RECURSIVE IndexOf(_, _, _)
IndexOf(s, c, i) ==
    IF i > Len(s) THEN i
    ELSE IF s[i] = c THEN i
    ELSE IndexOf(s, c, i + 1)

\* s.split(' ')[0]
FirstField(s) == SubSeq(s, 1, IndexOf(s, " ", 1) - 1)

\* float(s) for the decimal literals [sign] digits ["." digits], with at most
\* four fraction digits; None stands for ValueError.  Python accepts more
\* forms ('1e3', 'nan', ' 5 '); the model's inputs use none of them.
ParseFloat(s) ==
    LET signed == Len(s) > 0 /\ s[1] \in {"-", "+"}
        sgn == IF Len(s) > 0 /\ s[1] = "-" THEN 0 - 1 ELSE 1
        body == IF signed THEN Tail(s) ELSE s
        dot == IndexOf(body, ".", 1)
        whole == SubSeq(body, 1, dot - 1)
        frac == SubSeq(body, dot + 1, Len(body))
    IN  IF dot > Len(body)
        THEN IF IsDigits(body) THEN Some(FromInt(sgn * DigitsValue(body)))
             ELSE None
        ELSE IF IsDigits(whole) /\ IsDigits(frac) /\ Len(frac) <= 4
             THEN Some(Val(sgn * (DigitsValue(whole) * K
                                  + DigitsValue(frac) * Pow10(4 - Len(frac))), 1))
             ELSE None

----------------------------------------------------------------------------
(* temperature.py *)

\* celsius with the subtraction the other way round.
celsius_reversed(temp_in_fahr) == Val((32 * K - temp_in_fahr.n) * 5, 9)

\* (temp_in_fahr - 32) * (5 / 9): numerator over 9 K.
celsius(temp_in_fahr) == Val((temp_in_fahr.n - 32 * K) * 5, 9)

\* The coefficients are written in units of 10^-8, the constant term in units
\* of 1/K; t is in whole degrees F and h in whole percent, as NWS sends them.
calc_heat_index(temp, hum) ==
    LET t == temp.n \div K
        h == hum.n \div K
    IN  Val((0 - 423790)
            + MulK(204901523, t)
            + MulK(1014333127, h)
            - MulK(22475541, t * h)
            - MulK(683783, t * t)
            - MulK(5481717, h * h)
            + MulK(122874, t * t * h)
            + MulK(85282, t * h * h)
            - MulK(199, t * t * h * h), 1)

\* w ** 0.16 for w = 0 .. 15 mph, in units of 1/K.
Pow016Table ==
    << 0, 10000, 11173, 11922, 12483, 12937, 13320, 13653, 13947, 14213,
       14454, 14677, 14882, 15074, 15254, 15423 >>

Pow016(w) == Pow016Table[(w.n \div K) + 1]

calc_wind_chill(temp, w) ==
    LET t == temp.n \div K
        p == Pow016(w)
    IN  Val(357400 + MulK(6215, temp.n) - MulK(357500, p) + MulK(4275, t * p), 1)

----------------------------------------------------------------------------
(* data_processing.py: the helpers. *)

\* _simplify_wind_speed giving 0 for a string float() rejects.
_simplify_wind_speed_or_zero(wind_speed_data) ==
    IF ParseFloat(FirstField(wind_speed_data)) = None THEN Some(FromInt(0))
    ELSE ParseFloat(FirstField(wind_speed_data))

\* float(wind_speed_data.split(' ')[0]); None stands for ValueError.
_simplify_wind_speed(wind_speed_data) == ParseFloat(FirstField(wind_speed_data))

\* _process_curr_item with the two comparisons exchanged.
_process_curr_item_exchanged(curr, target, curr_datetime, target_datetime, limit) ==
    IF \/ target = None
       \/ (limit = "MAX" /\ Lt(curr, target[1]))
       \/ (limit = "MIN" /\ Gt(curr, target[1]))
    THEN << Some(curr), Some(curr_datetime) >>
    ELSE << target, target_datetime >>

\* _process_curr_item with >= and <= for > and <.
_process_curr_item_nonstrict(curr, target, curr_datetime, target_datetime, limit) ==
    IF \/ target = None
       \/ (limit = "MAX" /\ Ge(curr, target[1]))
       \/ (limit = "MIN" /\ Le(curr, target[1]))
    THEN << Some(curr), Some(curr_datetime) >>
    ELSE << target, target_datetime >>

\* Returns the pair (target, target_datetime) after looking at curr.
_process_curr_item(curr, target, curr_datetime, target_datetime, limit) ==
    IF \/ target = None
       \/ (limit = "MAX" /\ Gt(curr, target[1]))
       \/ (limit = "MIN" /\ Lt(curr, target[1]))
    THEN << Some(curr), Some(curr_datetime) >>
    ELSE << target, target_datetime >>

\* _datetime_to_utc putting Z after the local time, the offset dropped.
_datetime_to_utc_local(date_and_time) ==
    IF date_and_time = None THEN None
    ELSE Some([d |-> date_and_time[1].d, h |-> date_and_time[1].h, z |-> "Z"])

\* A start time is [d, h, off]: day, local hour and UTC offset in hours, for
\* 'YYYY-MM-DDTHH:00:00+off'.  The result is the same instant at offset 0;
\* None stands for the TypeError of fromisoformat(None).
_datetime_to_utc(date_and_time) ==
    IF date_and_time = None THEN None
    ELSE LET t == date_and_time[1]
             hours == t.d * 24 + t.h - t.off
         IN  Some([d |-> hours \div 24, h |-> hours % 24, z |-> "Z"])

\* f'{x:.4f}': the value rounded to a whole number of 1/K.
Format4(x) == RoundDiv(x.n, x.d)

----------------------------------------------------------------------------
(* data_processing.py: the body of each extractor's loop, the value it     *)
(* hands to _process_curr_item for one period.  None stands for the        *)
(* ValueError of _simplify_wind_speed.                                     *)

air_temperature(period, scale) ==
    LET curr_temp == FromInt(period.temperature)
    IN  Some(IF scale = "C" THEN celsius(curr_temp) ELSE curr_temp)

\* feels_like_temperature with 68 and 50 excluded from the two branches.
feels_like_temperature_exclusive(period, scale) ==
    LET curr_temp == FromInt(period.temperature)
        curr_humidity == FromInt(period.relativeHumidity)
        curr_wind == _simplify_wind_speed(period.windSpeed)
    IN  IF curr_wind = None THEN None
        ELSE LET felt ==
                   IF Gt(curr_temp, FromInt(68))
                   THEN calc_heat_index(curr_temp, curr_humidity)
                   ELSE IF Lt(curr_temp, FromInt(50)) /\ Gt(curr_wind[1], FromInt(3))
                   THEN calc_wind_chill(curr_temp, curr_wind[1])
                   ELSE curr_temp
             IN  Some(IF scale = "C" THEN celsius(felt) ELSE felt)

feels_like_temperature(period, scale) ==
    LET curr_temp == FromInt(period.temperature)
        curr_humidity == FromInt(period.relativeHumidity)
        curr_wind == _simplify_wind_speed(period.windSpeed)
    IN  IF curr_wind = None THEN None
        ELSE LET felt ==
                   IF Ge(curr_temp, FromInt(68))
                   THEN calc_heat_index(curr_temp, curr_humidity)
                   ELSE IF Le(curr_temp, FromInt(50)) /\ Gt(curr_wind[1], FromInt(3))
                   THEN calc_wind_chill(curr_temp, curr_wind[1])
                   ELSE curr_temp
             IN  Some(IF scale = "C" THEN celsius(felt) ELSE felt)

humidity(period, scale) == Some(FromInt(period.relativeHumidity))

wind_speed(period, scale) == _simplify_wind_speed(period.windSpeed)

chance_of_precipitation(period, scale) ==
    Some(FromInt(period.probabilityOfPrecipitation))

CurrItem(fn, period, scale) ==
    CASE fn = "AIR" -> air_temperature(period, scale)
      [] fn = "FEELS" -> feels_like_temperature(period, scale)
      [] fn = "HUMIDITY" -> humidity(period, scale)
      [] fn = "WIND" -> wind_speed(period, scale)
      [] fn = "PRECIPITATION" -> chance_of_precipitation(period, scale)

\* The '%' that humidity and chance_of_precipitation append.
Suffix(fn) == IF fn \in {"HUMIDITY", "PRECIPITATION"} THEN "%" ELSE ""

\* The return statement giving a line of zeros when nothing was scanned.
ResultLine_or_blank(fn, target, target_datetime) ==
    IF target_datetime = None
    THEN Some([datetime |-> [d |-> 0, h |-> 0, z |-> "Z"], value |-> 0,
               suffix |-> IF fn \in {"HUMIDITY", "PRECIPITATION"} THEN "%" ELSE ""])
    ELSE Some([datetime |-> _datetime_to_utc(target_datetime)[1],
               value |-> Format4(target[1]),
               suffix |-> IF fn \in {"HUMIDITY", "PRECIPITATION"} THEN "%" ELSE ""])

\* return f'{_datetime_to_utc(target_datetime)} {target:.4f}'
\* None stands for the TypeError of _datetime_to_utc(None).
ResultLine(fn, target, target_datetime) ==
    LET utc == _datetime_to_utc(target_datetime)
    IN  IF utc = None THEN None
        ELSE Some([datetime |-> utc[1],
                   value |-> Format4(target[1]),
                   suffix |-> Suffix(fn)])

----------------------------------------------------------------------------
(* weather_stealer_usa_3000.py: _get_query_results. *)

_available_num_of_time_periods(data) == Len(data.periods)

\* The window length without the clamp.
WindowLength_requested(length, data) == length

\* length = min(length, _available_num_of_time_periods(forecast_data))
WindowLength(length, data) == Min(length, _available_num_of_time_periods(data))

\* A query line after query.split(' '), its length field after int().
IsTemperature(query) == query[1] = "TEMPERATURE"

QueryType(query) == IF IsTemperature(query) THEN query[2] ELSE query[1]

QueryScale(query) == IF IsTemperature(query) THEN query[3] ELSE ""

QueryLength(query) == IF IsTemperature(query) THEN query[4] ELSE query[2]

QueryLimit(query) == IF IsTemperature(query) THEN query[5] ELSE query[3]

\* Which extractor the if/elif chain calls for the query, or "" for none.
Dispatch(query) ==
    IF IsTemperature(query)
    THEN IF QueryType(query) \in {"AIR", "FEELS"} THEN QueryType(query) ELSE ""
    ELSE IF QueryType(query) \in {"HUMIDITY", "WIND", "PRECIPITATION"}
         THEN QueryType(query) ELSE ""

Raise(exception) ==
    /\ pc' = "raised"
    /\ raised' = exception

\* The dispatch with the running best kept from the extractor that returned
\* last, as if target and target_datetime were shared by the extractors.
QueryDispatch_shared ==
    /\ pc = "queries"
    /\ call = None
    /\ qi <= Len(weather_queries)
    /\ LET query == weather_queries[qi]
           fn == Dispatch(query)
       IN  IF fn = ""
           THEN /\ qi' = qi + 1
                /\ UNCHANGED << call, scanned >>
           ELSE /\ call' = Some([fn |-> fn,
                                 scale |-> QueryScale(query),
                                 length |-> WindowLength(QueryLength(query), forecast_data[1]),
                                 limit |-> QueryLimit(query),
                                 i |-> 0,
                                 target |-> IF returned = None THEN None
                                            ELSE returned[1].target,
                                 target_datetime |-> IF returned = None THEN None
                                                     ELSE returned[1].target_datetime])
                /\ scanned' = << >>
                /\ UNCHANGED qi
    /\ UNCHANGED << pc, raised, weather_queries, fwd_geocoding_data,
                    target_location, forecast_data, forecast_location,
                    rev_geocoding_data, forecast_location_address, api_used,
                    fetch_log, output, query_results, returned, geo >>

\* One turn of  for query in queries  up to the call of the extractor.
QueryDispatch ==
    /\ pc = "queries"
    /\ call = None
    /\ qi <= Len(weather_queries)
    /\ LET query == weather_queries[qi]
           fn == Dispatch(query)
       IN  IF fn = ""
           THEN /\ qi' = qi + 1
                /\ UNCHANGED << call, scanned >>
           ELSE /\ call' = Some([fn |-> fn,
                                 scale |-> QueryScale(query),
                                 length |-> WindowLength(QueryLength(query), forecast_data[1]),
                                 limit |-> QueryLimit(query),
                                 i |-> 0,
                                 target |-> None,
                                 target_datetime |-> None])
                /\ scanned' = << >>
                /\ UNCHANGED qi
    /\ UNCHANGED << pc, raised, weather_queries, fwd_geocoding_data,
                    target_location, forecast_data, forecast_location,
                    rev_geocoding_data, forecast_location_address, api_used,
                    fetch_log, output, query_results, returned, geo >>

\* One turn of  for i in range(length)  in the extractor.
ScanStep ==
    /\ pc = "queries"
    /\ call # None
    /\ call[1].i < call[1].length
    /\ LET f == call[1]
           periods == forecast_data[1].periods
       IN  IF f.i + 1 > Len(periods)
           THEN /\ Raise("IndexError")
                /\ UNCHANGED << call, scanned >>
           ELSE LET period == periods[f.i + 1]
                    curr == CurrItem(f.fn, period, f.scale)
                IN  IF curr = None
                    THEN /\ Raise("ValueError")
                         /\ UNCHANGED << call, scanned >>
                    ELSE LET best == _process_curr_item(curr[1], f.target,
                                         period.startTime, f.target_datetime, f.limit)
                         IN  /\ call' = Some([f EXCEPT !.i = f.i + 1,
                                                       !.target = best[1],
                                                       !.target_datetime = best[2]])
                             /\ scanned' = Append(scanned, curr[1])
                             /\ UNCHANGED << pc, raised >>
    /\ UNCHANGED << weather_queries, fwd_geocoding_data, target_location,
                    forecast_data, forecast_location, rev_geocoding_data,
                    forecast_location_address, api_used, fetch_log, output,
                    query_results, qi, returned, geo >>

\* The extractor's return statement and the append of its result.
ExtractorReturn ==
    /\ pc = "queries"
    /\ call # None
    /\ call[1].i >= call[1].length
    /\ LET f == call[1]
           line == ResultLine(f.fn, f.target, f.target_datetime)
       IN  IF line = None
           THEN /\ Raise("TypeError")
                /\ UNCHANGED << call, query_results, qi, returned >>
           ELSE /\ query_results' = Append(query_results, line[1])
                /\ returned' = Some(f)
                /\ call' = None
                /\ qi' = qi + 1
                /\ UNCHANGED << pc, raised >>
    /\ UNCHANGED << weather_queries, fwd_geocoding_data, target_location,
                    forecast_data, forecast_location, rev_geocoding_data,
                    forecast_location_address, api_used, fetch_log, output,
                    scanned, geo >>

\* return query_results
QueriesReturn ==
    /\ pc = "queries"
    /\ call = None
    /\ qi > Len(weather_queries)
    /\ pc' = "print"
    /\ UNCHANGED << raised, weather_queries, fwd_geocoding_data,
                    target_location, forecast_data, forecast_location,
                    rev_geocoding_data, forecast_location_address, api_used,
                    fetch_log, output, query_results, qi, call, scanned,
                    returned, geo >>

----------------------------------------------------------------------------
(* forward_geocoding.py, weather_forecast.py, reverse_geocoding.py.        *)
(* A response is what the environment answers to one request:              *)
(*   kind "URLError":  urlopen raises URLError (no connection);            *)
(*   kind "HTTPError": urlopen raises HTTPError (a status outside 2xx);    *)
(*   kind "response":  urlopen returns, getcode() is code (a 2xx status),  *)
(*                     and the body is JSON or is not;                     *)
(*   kind "OSError":   Path.open raises;  kind "file": the file opens.     *)
(* fetch_data gives [ret, printed, exc]: the value returned (None or the   *)
(* document), the lines _print_error printed, and the exception that       *)
(* leaves fetch_data ("" for none).                                        *)

Response(kind, code, body) == [kind |-> kind, code |-> code, body |-> body]

Fetched(ret, printed, exc) == [ret |-> ret, printed |-> printed, exc |-> exc]

_print_error(first_arg, second_arg) == << "FAILED", first_arg, second_arg >>

\* if http_code != 200: raise urllib.error.HTTPError
\* The class is raised without the five arguments its constructor requires,
\* so the raise statement itself ends in TypeError, which no except clause
\* of fetch_data names.
RaiseNot200 == Fetched(None, << >>, "TypeError")

\* One request of an API class: the try block of fetch_data.
ApiRequest(resp, data) ==
    IF resp.kind = "HTTPError" THEN Fetched(None, _print_error("URL", "NOT 200"), "")
    ELSE IF resp.kind = "URLError" THEN Fetched(None, _print_error("URL", "NETWORK"), "")
    ELSE IF resp.code # 200 THEN RaiseNot200
    ELSE IF resp.body # "json" THEN Fetched(None, _print_error("URL", "FORMAT"), "")
    ELSE Fetched(Some(data), << >>, "")

ForwardGeocodingAPI_fetch_data(resps, data) == ApiRequest(resps[1], data)

ReverseGeocodingAPI_fetch_data(resps, data) == ApiRequest(resps[1], data)

\* The metadata request, then the request of metadata's forecastHourly URL.
WeatherForecastAPI_fetch_data(resps, data) ==
    LET metadata == ApiRequest(resps[1], "metadata")
    IN  IF metadata.ret = None THEN metadata
        ELSE ApiRequest(resps[2], data)

\* fetch_data of the three File classes.
File_fetch_data(resps, data) ==
    IF resps[1].kind = "OSError" THEN Fetched(None, _print_error("PATH", "MISSING"), "")
    ELSE IF resps[1].body # "json" THEN Fetched(None, _print_error("PATH", "FORMAT"), "")
    ELSE Fetched(Some(data), << >>, "")

ApiResponses ==
    { Response("URLError", 0, ""), Response("HTTPError", 404, ""),
      Response("response", 200, "json"), Response("response", 200, "garbage"),
      Response("response", 204, "json") }

FileResponses ==
    { Response("OSError", 0, ""), Response("file", 0, "json"),
      Response("file", 0, "garbage") }

\* The responses an object's fetch_data consumes: two requests for the
\* forecast API when the first succeeds, one otherwise.
ResponsesFor(source, api) ==
    IF ~api THEN { << r >> : r \in FileResponses }
    ELSE IF source = "forecast"
    THEN { << r >> : r \in ApiResponses \ {Response("response", 200, "json")} }
         \cup { << Response("response", 200, "json"), r >> : r \in ApiResponses }
    ELSE { << r >> : r \in ApiResponses }

fetch_data(source, api, resps, data) ==
    IF ~api THEN File_fetch_data(resps, data)
    ELSE CASE source = "forward" -> ForwardGeocodingAPI_fetch_data(resps, data)
           [] source = "forecast" -> WeatherForecastAPI_fetch_data(resps, data)
           [] source = "reverse" -> ReverseGeocodingAPI_fetch_data(resps, data)

----------------------------------------------------------------------------
(* data_processing.py: geocoding. *)

\* get_latitude_and_longitude giving (0, 0) for an empty list.
get_latitude_and_longitude_or_origin(geocoding_data) ==
    IF Len(geocoding_data) = 0
    THEN [ret |-> Some(<< FromInt(0), FromInt(0) >>), exc |-> ""]
    ELSE [ret |-> Some(<< ParseFloat(geocoding_data[1].lat)[1],
                          ParseFloat(geocoding_data[1].lon)[1] >>), exc |-> ""]

\* IndexError for an empty list, ValueError when float() rejects a field.
get_latitude_and_longitude(geocoding_data) ==
    IF Len(geocoding_data) = 0 THEN [ret |-> None, exc |-> "IndexError"]
    ELSE LET latitude == ParseFloat(geocoding_data[1].lat)
             longitude == ParseFloat(geocoding_data[1].lon)
         IN  IF latitude = None \/ longitude = None
             THEN [ret |-> None, exc |-> "ValueError"]
             ELSE [ret |-> Some(<< latitude[1], longitude[1] >>), exc |-> ""]

RECURSIVE SumOf(_, _)
SumOf(S, k) ==
    IF S = {} THEN 0
    ELSE LET c == CHOOSE x \in S : TRUE
         IN  c[k] + SumOf(S \ {c}, k)

RECURSIVE GCD(_, _)
GCD(a, b) == IF b = 0 THEN a ELSE GCD(b, a % b)

\* sum / count as a float: the fraction in lowest terms.
Quotient(sum, count) ==
    LET g == GCD(Abs(sum) * K, count)
    IN  Val((sum * K) \div g, count \div g)

\* The averages over unique_coords; a coordinate is << lon, lat >>.
AverageOf(unique_coords) ==
    IF unique_coords = {} THEN [ret |-> None, exc |-> "ZeroDivisionError"]
    ELSE [ret |-> Some(<< Quotient(SumOf(unique_coords, 2), Cardinality(unique_coords)),
                          Quotient(SumOf(unique_coords, 1), Cardinality(unique_coords)) >>),
          exc |-> ""]

\* unique_coords.add(tuple(coordinate))
AddCoordinate(unique_coords, coordinate) == unique_coords \cup {coordinate}

RECURSIVE UniqueCoords(_, _)
UniqueCoords(polygon_coords, k) ==
    IF k = 0 THEN {}
    ELSE AddCoordinate(UniqueCoords(polygon_coords, k - 1), polygon_coords[k])

determine_forecast_location(data) ==
    AverageOf(UniqueCoords(data.polygon, Len(data.polygon)))

get_forecast_location_address(rev_data) ==
    IF "display_name" \in DOMAIN rev_data
    THEN [ret |-> Some(rev_data.display_name), exc |-> ""]
    ELSE [ret |-> None, exc |-> "KeyError"]

----------------------------------------------------------------------------
(* weather_stealer_usa_3000.py: printing. *)

_convert_coords_to_strings(coords) ==
    << [value |-> Val(Abs(coords[1].n), coords[1].d),
        direction |-> IF coords[1].n < 0 THEN "S" ELSE "N"],
       [value |-> Val(Abs(coords[2].n), coords[2].d),
        direction |-> IF coords[2].n < 0 THEN "W" ELSE "E"] >>

_print_output(results, target_loc, forecast_loc, forecast_addr) ==
    << << "TARGET", _convert_coords_to_strings(target_loc) >>,
       << "FORECAST", _convert_coords_to_strings(forecast_loc) >>,
       << "ADDRESS", forecast_addr >> >>
    \o [i \in 1..Len(results) |-> << "RESULT", results[i] >>]

_print_attributions(fwd_geo_used, weather_api_used, rev_geo_used) ==
    << << "" >> >>
    \o (IF fwd_geo_used THEN << << "**Forward geocoding data from OpenStreetMap" >> >>
        ELSE << >>)
    \o (IF rev_geo_used THEN << << "**Reverse geocoding data from OpenStreetMap" >> >>
        ELSE << >>)
    \o (IF weather_api_used
        THEN << << "**Real-time weather data from National Weather Service" >> >>
        ELSE << >>)

----------------------------------------------------------------------------
(* Inputs. *)

Str_4mph == << "4", " ", "m", "p", "h" >>

Str_3mph == << "3", " ", "m", "p", "h" >>

Str_10mph == << "1", "0", " ", "m", "p", "h" >>

Str_NA == << "N", "/", "A" >>

Reading(t, h, w, p) ==
    [temperature |-> t, relativeHumidity |-> h, windSpeed |-> w,
     probabilityOfPrecipitation |-> p]

\* Hourly readings: the heat index threshold, the wind chill threshold with
\* wind above 3 mph, a cold hour with wind at 3 mph, the band between the
\* thresholds, and an hour whose wind speed is not a number.
Readings ==
    { Reading(68, 50, Str_4mph, 20),
      Reading(50, 80, Str_4mph, 20),
      Reading(45, 50, Str_3mph, 0),
      Reading(60, 80, Str_10mph, 60),
      Reading(90, 80, Str_NA, 0) }

Offsets == {0 - 8, 5}

\* Period i (from 1) starts at 22:00 local time of day 1 plus i - 1 hours.
StartTime(i, off) ==
    [d |-> 1 + ((21 + i) \div 24), h |-> (21 + i) % 24, off |-> off]

Period(r, i, off) ==
    [startTime |-> StartTime(i, off),
     temperature |-> r.temperature,
     relativeHumidity |-> r.relativeHumidity,
     windSpeed |-> r.windSpeed,
     probabilityOfPrecipitation |-> r.probabilityOfPrecipitation]

PeriodSeqs(readings, off) ==
    UNION { { [i \in 1..n |-> Period(rs[i], i, off)] : rs \in [1..n -> readings] }
            : n \in 0..MaxPeriods }

Square == << <<0, 0>>, <<0, 2>>, <<2, 2>>, <<2, 0>>, <<0, 0>> >>

Forecast(periods, polygon) == [periods |-> periods, polygon |-> polygon]

\* Two hours from 2023-01-01T00:00:00-08:00, at 70 and 75 degrees F.
NewYearForecast ==
    Forecast(<< [startTime |-> [d |-> 1, h |-> 0, off |-> 0 - 8],
                 temperature |-> 70, relativeHumidity |-> 50,
                 windSpeed |-> Str_4mph, probabilityOfPrecipitation |-> 20],
                [startTime |-> [d |-> 1, h |-> 1, off |-> 0 - 8],
                 temperature |-> 75, relativeHumidity |-> 50,
                 windSpeed |-> Str_4mph, probabilityOfPrecipitation |-> 20] >>,
             Square)

Limits == {"MAX", "MIN"}

Lengths == {0 - 1, 0, 1, 2, 5}

TemperatureQueries(lengths) ==
    { << "TEMPERATURE", t, s, n, l >> :
        t \in {"AIR", "FEELS"}, s \in {"F", "C"}, n \in lengths, l \in Limits }

OtherQueries(lengths) ==
    { << t, n, l >> :
        t \in {"HUMIDITY", "WIND", "PRECIPITATION"}, n \in lengths, l \in Limits }

Irvine ==
    [lat |-> << "3", "3", ".", "6", "4" >>,
     lon |-> << "-", "1", "1", "7", ".", "8" >>]

Sydney ==
    [lat |-> << "-", "3", "3", ".", "8" >>,
     lon |-> << "1", "5", "1", ".", "2" >>]

GeocodeResults == { << >>, << Irvine >>, << Irvine, Sydney >>, << Sydney, Irvine >> }

ReverseResults ==
    { [display_name |-> "Irvine, California"], [error |-> "Unable to geocode"] }

Band == << << 0, 0 >>, << 2, 0 >>, << 0, 0 >> >>

\* The forecasts of the whole run: no period, one period, and the
\* thresholds with a repeated reading.
RunForecasts ==
    { Forecast(<< >>, Square),
      Forecast(<< Period(Reading(60, 80, Str_10mph, 60), 1, 0 - 8) >>, Band),
      Forecast(<< Period(Reading(68, 50, Str_4mph, 20), 1, 0 - 8),
                  Period(Reading(50, 80, Str_4mph, 20), 2, 0 - 8),
                  Period(Reading(68, 50, Str_4mph, 20), 3, 0 - 8) >>, Square) }

RunQueries ==
    { << "TEMPERATURE", "AIR", "F", 2, "MAX" >>,
      << "TEMPERATURE", "FEELS", "C", 3, "MIN" >>,
      << "TEMPERATURE", "DEW", "F", 1, "MAX" >>,
      << "HUMIDITY", 5, "MAX" >>,
      << "WIND", 1, "MIN" >>,
      << "PRECIPITATION", 2, "MIN" >> }

QueryLists == UNION { [1..n -> RunQueries] : n \in 0..MaxQueries }

DataFor(source) ==
    CASE source = "forward" -> GeocodeResults
      [] source = "forecast" -> RunForecasts
      [] source = "reverse" -> ReverseResults

----------------------------------------------------------------------------
(* weather_stealer_usa_3000.py: run_weather_ui. *)

\* The locals of determine_forecast_location at its entry.
GeoEntry == [k |-> 0, unique_coords |-> {}]

\* _get_query_input: the query lines up to 'NO MORE QUERIES'.
GetQueryInput ==
    /\ pc = "input"
    /\ weather_queries' \in QueryLists
    /\ pc' = "fwd_fetch"
    /\ UNCHANGED << raised, fwd_geocoding_data, target_location, forecast_data,
                    forecast_location, rev_geocoding_data,
                    forecast_location_address, api_used, fetch_log, output,
                    query_results, qi, call, scanned, returned, geo >>

\* The fetch without the  if data is None: return  after it.
Fetch_without_return(source, data_var, next_pc) ==
    \E api \in BOOLEAN :
      \E resps \in ResponsesFor(source, api) :
        \E data \in DataFor(source) :
          LET r == fetch_data(source, api, resps, data)
          IN  /\ api_used' = Append(api_used, api)
              /\ fetch_log' = Append(fetch_log,
                     [source |-> source, api |-> api, resps |-> resps,
                      ret |-> r.ret, exc |-> r.exc, printed |-> r.printed])
              /\ output' = output \o r.printed
              /\ IF r.exc # ""
                 THEN /\ Raise(r.exc)
                      /\ data_var' = data_var
                 ELSE /\ pc' = next_pc
                      /\ UNCHANGED raised
                      /\ data_var' = r.ret

\* obj.fetch_data() and the  if data is None: return  that follows it, for
\* the object _process_*_choice built (an API or a File object).
Fetch(source, data_var, next_pc) ==
    \E api \in BOOLEAN :
      \E resps \in ResponsesFor(source, api) :
        \E data \in DataFor(source) :
          LET r == fetch_data(source, api, resps, data)
          IN  /\ api_used' = Append(api_used, api)
              /\ fetch_log' = Append(fetch_log,
                     [source |-> source, api |-> api, resps |-> resps,
                      ret |-> r.ret, exc |-> r.exc, printed |-> r.printed])
              /\ output' = output \o r.printed
              /\ IF r.exc # ""
                 THEN /\ Raise(r.exc)
                      /\ data_var' = data_var
                 ELSE IF r.ret = None
                 THEN /\ pc' = "done"
                      /\ UNCHANGED raised
                      /\ data_var' = data_var
                 ELSE /\ pc' = next_pc
                      /\ UNCHANGED raised
                      /\ data_var' = r.ret

FwdFetch ==
    /\ pc = "fwd_fetch"
    /\ Fetch("forward", fwd_geocoding_data, "fwd_locate")
    /\ UNCHANGED << weather_queries, target_location, forecast_data,
                    forecast_location, rev_geocoding_data,
                    forecast_location_address, query_results, qi, call,
                    scanned, returned, geo >>

\* target_location = data_processing.get_latitude_and_longitude(...)
FwdLocate ==
    /\ pc = "fwd_locate"
    /\ LET r == get_latitude_and_longitude(fwd_geocoding_data[1])
       IN  IF r.exc # ""
           THEN /\ Raise(r.exc)
                /\ UNCHANGED target_location
           ELSE /\ target_location' = r.ret
                /\ pc' = "forecast_fetch"
                /\ UNCHANGED raised
    /\ UNCHANGED << weather_queries, fwd_geocoding_data, forecast_data,
                    forecast_location, rev_geocoding_data,
                    forecast_location_address, api_used, fetch_log, output,
                    query_results, qi, call, scanned, returned, geo >>

ForecastFetch ==
    /\ pc = "forecast_fetch"
    /\ Fetch("forecast", forecast_data, "forecast_locate")
    /\ UNCHANGED << weather_queries, fwd_geocoding_data, target_location,
                    forecast_location, rev_geocoding_data,
                    forecast_location_address, query_results, qi, call,
                    scanned, returned, geo >>

\* determine_forecast_location: one turn of  for coordinate in polygon_coords.
GeoAdd ==
    /\ pc = "forecast_locate"
    /\ geo.k < Len(forecast_data[1].polygon)
    /\ geo' = [k |-> geo.k + 1,
               unique_coords |-> AddCoordinate(geo.unique_coords,
                                     forecast_data[1].polygon[geo.k + 1])]
    /\ UNCHANGED << pc, raised, weather_queries, fwd_geocoding_data,
                    target_location, forecast_data, forecast_location,
                    rev_geocoding_data, forecast_location_address, api_used,
                    fetch_log, output, query_results, qi, call, scanned,
                    returned >>

RECURSIVE SumOfSeq(_, _)
SumOfSeq(coords, k) ==
    IF coords = << >> THEN 0 ELSE Head(coords)[k] + SumOfSeq(Tail(coords), k)

\* The averages taken over every vertex of polygon_coords, repeats included.
GeoAverage_every_vertex ==
    /\ pc = "forecast_locate"
    /\ geo.k = Len(forecast_data[1].polygon)
    /\ LET polygon_coords == forecast_data[1].polygon
       IN  IF polygon_coords = << >>
           THEN /\ Raise("ZeroDivisionError")
                /\ UNCHANGED forecast_location
           ELSE /\ forecast_location' =
                     Some(<< Quotient(SumOfSeq(polygon_coords, 2), Len(polygon_coords)),
                             Quotient(SumOfSeq(polygon_coords, 1), Len(polygon_coords)) >>)
                /\ pc' = "rev_fetch"
                /\ UNCHANGED raised
    /\ UNCHANGED << weather_queries, fwd_geocoding_data, target_location,
                    forecast_data, rev_geocoding_data,
                    forecast_location_address, api_used, fetch_log, output,
                    query_results, qi, call, scanned, returned, geo >>

\* determine_forecast_location: the sums, the two divisions and the return.
GeoAverage ==
    /\ pc = "forecast_locate"
    /\ geo.k = Len(forecast_data[1].polygon)
    /\ LET r == AverageOf(geo.unique_coords)
       IN  IF r.exc # ""
           THEN /\ Raise(r.exc)
                /\ UNCHANGED forecast_location
           ELSE /\ forecast_location' = r.ret
                /\ pc' = "rev_fetch"
                /\ UNCHANGED raised
    /\ UNCHANGED << weather_queries, fwd_geocoding_data, target_location,
                    forecast_data, rev_geocoding_data,
                    forecast_location_address, api_used, fetch_log, output,
                    query_results, qi, call, scanned, returned, geo >>

RevFetch ==
    /\ pc = "rev_fetch"
    /\ Fetch("reverse", rev_geocoding_data, "rev_address")
    /\ UNCHANGED << weather_queries, fwd_geocoding_data, target_location,
                    forecast_data, forecast_location,
                    forecast_location_address, query_results, qi, call,
                    scanned, returned, geo >>

\* forecast_location_address = get_forecast_location_address(...); the call
\* of _get_query_results comes next.
RevAddress ==
    /\ pc = "rev_address"
    /\ LET r == get_forecast_location_address(rev_geocoding_data[1])
       IN  IF r.exc # ""
           THEN /\ Raise(r.exc)
                /\ UNCHANGED forecast_location_address
           ELSE /\ forecast_location_address' = r.ret
                /\ pc' = "queries"
                /\ UNCHANGED raised
    /\ UNCHANGED << weather_queries, fwd_geocoding_data, target_location,
                    forecast_data, forecast_location, rev_geocoding_data,
                    api_used, fetch_log, output, query_results, qi, call,
                    scanned, returned, geo >>

\* _print_output and _print_attributions.
PrintOutput ==
    /\ pc = "print"
    /\ output' = output
                 \o _print_output(query_results, target_location[1],
                                  forecast_location[1], forecast_location_address[1])
                 \o _print_attributions(api_used[1], api_used[2], api_used[3])
    /\ pc' = "done"
    /\ UNCHANGED << raised, weather_queries, fwd_geocoding_data,
                    target_location, forecast_data, forecast_location,
                    rev_geocoding_data, forecast_location_address, api_used,
                    fetch_log, query_results, qi, call, scanned, returned, geo >>

Init ==
    /\ pc = "input"
    /\ raised = ""
    /\ weather_queries = << >>
    /\ fwd_geocoding_data = None
    /\ target_location = None
    /\ forecast_data = None
    /\ forecast_location = None
    /\ rev_geocoding_data = None
    /\ forecast_location_address = None
    /\ api_used = << >>
    /\ fetch_log = << >>
    /\ output = << >>
    /\ query_results = << >>
    /\ qi = 1
    /\ call = None
    /\ scanned = << >>
    /\ returned = None
    /\ geo = GeoEntry

Next ==
    \/ GetQueryInput
    \/ FwdFetch
    \/ FwdLocate
    \/ ForecastFetch
    \/ GeoAdd
    \/ GeoAverage
    \/ RevFetch
    \/ RevAddress
    \/ QueryDispatch
    \/ ScanStep
    \/ ExtractorReturn
    \/ QueriesReturn
    \/ PrintOutput

Spec == Init /\ [][Next]_vars

----------------------------------------------------------------------------
(* _get_query_results on one query, over every forecast of up to           *)
(* MaxPeriods periods.                                                     *)

InitQuery ==
    /\ pc = "queries"
    /\ raised = ""
    /\ weather_queries \in
         { << q >> : q \in TemperatureQueries(Lengths) \cup OtherQueries(Lengths) }
    /\ fwd_geocoding_data = None
    /\ target_location = None
    /\ forecast_data \in
         { Some(Forecast(ps, Square)) :
             ps \in UNION { PeriodSeqs(Readings, off) : off \in Offsets } }
         \cup { Some(NewYearForecast) }
    /\ forecast_location = None
    /\ rev_geocoding_data = None
    /\ forecast_location_address = None
    /\ api_used = << >>
    /\ fetch_log = << >>
    /\ output = << >>
    /\ query_results = << >>
    /\ qi = 1
    /\ call = None
    /\ scanned = << >>
    /\ returned = None
    /\ geo = GeoEntry

NextQuery ==
    \/ QueryDispatch
    \/ ScanStep
    \/ ExtractorReturn
    \/ QueriesReturn

SpecQuery == InitQuery /\ [][NextQuery]_vars

----------------------------------------------------------------------------
(* determine_forecast_location over every polygon of up to MaxVertices     *)
(* vertices on a grid.                                                     *)

Grid == { << x, y >> : x \in {0, 2}, y \in {0, 2} }

Polygons == UNION { [1..n -> Grid] : n \in 0..MaxVertices }

InitGeo ==
    /\ pc = "forecast_locate"
    /\ raised = ""
    /\ weather_queries = << >>
    /\ fwd_geocoding_data = None
    /\ target_location = None
    /\ forecast_data \in { Some(Forecast(<< >>, polygon)) : polygon \in Polygons }
    /\ forecast_location = None
    /\ rev_geocoding_data = None
    /\ forecast_location_address = None
    /\ api_used = << >>
    /\ fetch_log = << >>
    /\ output = << >>
    /\ query_results = << >>
    /\ qi = 1
    /\ call = None
    /\ scanned = << >>
    /\ returned = None
    /\ geo = GeoEntry

NextGeo ==
    \/ GeoAdd
    \/ GeoAverage

SpecGeo == InitGeo /\ [][NextGeo]_vars

----------------------------------------------------------------------------
(* The claims. *)

\* The frame of the extractor being run, or of the last one that returned.
Frames == { f \in {call, returned} : f # None }

\* The values the extractor of frame f computes for the periods it scanned.
Items(f) ==
    [j \in 1..f.i |-> CurrItem(f.fn, forecast_data[1].periods[j], f.scale)[1]]

\* C1: over a window of N >= 1 periods the value an extractor returns with
\* limit MAX is the transformed value of one of periods[0..N-1] and is >= the
\* transformed value of each of them; with MIN it is one of them and <= each.
\* It holds of the running best after every period scanned as well.
C1_ExtremumOfWindow ==
    \A b \in Frames :
      LET f == b[1]
          items == Items(f)
      IN  f.i >= 1 =>
            /\ \E j \in 1..f.i : f.target[1] = items[j]
            /\ f.limit = "MAX" => \A j \in 1..f.i : Ge(f.target[1], items[j])
            /\ f.limit = "MIN" => \A j \in 1..f.i : Le(f.target[1], items[j])

\* Some extractor returned the value of a period other than the first, which
\* is strictly above (MAX) the value of another period of its window.
C1_Witness ==
    /\ returned # None
    /\ returned[1].limit = "MAX"
    /\ returned[1].length = 3
    /\ returned[1].target[1] # Items(returned[1])[1]
    /\ \E j \in 1..3 : Gt(returned[1].target[1], Items(returned[1])[j])

\* C2: when several periods of the window hold the extremum, the timestamp
\* kept is the start time of the lowest-index one, for MAX and for MIN.
C2_FirstOccurrenceWins ==
    \A b \in Frames :
      LET f == b[1]
          items == Items(f)
          holders == { j \in 1..f.i : items[j] = f.target[1] }
      IN  f.i >= 1 =>
            \E j \in holders :
              /\ \A k \in holders : j <= k
              /\ f.target_datetime[1] = forecast_data[1].periods[j].startTime

\* An extractor returned and two periods of its window hold the extremum.
C2_Witness ==
    /\ returned # None
    /\ LET f == returned[1]
       IN  Cardinality({ j \in 1..f.i : Items(f)[j] = f.target[1] }) >= 2

\* C3: the window length handed to the extractor is min(requested length,
\* available periods); the extractor reads no period past the last
\* available one, so no read of periods[i] ends in IndexError.
C3_WindowClamped ==
    /\ ~(call # None /\ raised = "IndexError")
    /\ \A b \in Frames :
         /\ b[1].i <= Len(forecast_data[1].periods)
         /\ b[1].length <= Len(forecast_data[1].periods)
    /\ call # None =>
         LET requested == QueryLength(weather_queries[qi])
             available == Len(forecast_data[1].periods)
         IN  call[1].length = IF requested < available THEN requested ELSE available

\* More periods were requested than there are, and every one there is has
\* been scanned.
C3_Witness ==
    /\ call # None
    /\ QueryLength(weather_queries[qi]) > Len(forecast_data[1].periods)
    /\ call[1].i = Len(forecast_data[1].periods)
    /\ call[1].i >= 2

\* C4: with a window length of 0 or less no extractor returns a result
\* string: the call ends in an error (the TypeError of its return statement).
C4_EmptyWindowRaises ==
    /\ \A b \in Frames :
         b[1].length <= 0 =>
           /\ b[1].i = 0
           /\ returned = None
           /\ query_results = << >>
           /\ pc \in {"queries", "raised"}
           /\ pc = "raised" => raised = "TypeError"
    /\ Len(query_results) > 0 => (returned # None /\ returned[1].length >= 1)

\* An extractor called with a window of length 0 or less has ended.
C4_Witness ==
    /\ call # None
    /\ call[1].length <= 0
    /\ pc = "raised"

\* C5: _get_query_results never calls an extractor with a window length of 0.
C5_NeverEmptyWindow ==
    call # None => call[1].length # 0

FailureReason(resp) ==
    IF resp.kind = "URLError" THEN "NETWORK"
    ELSE IF resp.kind = "HTTPError" \/ resp.code # 200 THEN "NOT 200"
    ELSE IF resp.body # "json" THEN "FORMAT"
    ELSE ""

\* C7: fetch_data of every API class, for a status that is not 200, a
\* network error or a body that is not JSON, prints FAILED with the reason
\* NOT 200, NETWORK or FORMAT and returns None; it does not raise.
C7_ApiFailureReturnsNone ==
    \A k \in 1..Len(fetch_log) :
      LET e == fetch_log[k]
          reason == FailureReason(e.resps[Len(e.resps)])
      IN  (e.api /\ reason # "") =>
            /\ e.exc = ""
            /\ e.ret = None
            /\ e.printed = << "FAILED", "URL", reason >>

\* The vertices of the forecast polygon, each once.
Distinct(polygon) == { polygon[i] : i \in 1..Len(polygon) }

\* C8: determine_forecast_location returns (mean latitude, mean longitude)
\* over the distinct vertices of the polygon; a ring whose last vertex
\* repeats the first has the centroid of the ring without the repeat, and
\* the square (0,0),(0,2),(2,2),(2,0),(0,0) has (1, 1).
C8_CentroidOfDistinct ==
    forecast_location # None =>
      LET polygon == forecast_data[1].polygon
          D == Distinct(polygon)
          n == Cardinality(D)
          lat == forecast_location[1][1]
          lon == forecast_location[1][2]
          open == SubSeq(polygon, 1, Len(polygon) - 1)
      IN  /\ lat.n * n = SumOf(D, 2) * K * lat.d
          /\ lon.n * n = SumOf(D, 1) * K * lon.d
          /\ (Len(polygon) >= 2 /\ polygon[Len(polygon)] = polygon[1]) =>
               forecast_location = determine_forecast_location(
                                       Forecast(<< >>, open)).ret
          /\ polygon = Square => forecast_location[1] = << FromInt(1), FromInt(1) >>

\* The centroid of the closed square has been computed.
C8_Witness ==
    /\ forecast_location # None
    /\ forecast_data[1].polygon = Square

\* A wind-speed string with no leading number.
NoLeadingNumber(s) == Len(s) = 0 \/ s[1] \notin Digits

\* C9: a WIND or FEELS query whose window holds a period with a wind-speed
\* string without a leading number gives no result: it ends in the
\* ValueError of float().
C9_MalformedWindFails ==
    \A b \in Frames :
      LET f == b[1]
      IN  (/\ f.fn \in {"WIND", "FEELS"}
           /\ \E j \in 1..f.length :
                NoLeadingNumber(forecast_data[1].periods[j].windSpeed)) =>
            /\ returned = None
            /\ query_results = << >>
            /\ pc \in {"queries", "raised"}
            /\ pc = "raised" => raised = "ValueError"
            /\ \A j \in 1..f.i :
                 ~NoLeadingNumber(forecast_data[1].periods[j].windSpeed)

\* A feels-like query ended on the malformed wind speed of its third period,
\* a hot one, after two periods scanned.
C9_Witness ==
    /\ call # None
    /\ call[1].fn = "FEELS"
    /\ call[1].i = 2
    /\ pc = "raised"
    /\ NoLeadingNumber(forecast_data[1].periods[3].windSpeed)

\* C10: get_latitude_and_longitude returns the latitude and longitude of the
\* first candidate as numbers, and for an empty result sequence it fails
\* (IndexError) and returns no point.
C10_FirstCandidateOrError ==
    /\ (target_location # None /\ fwd_geocoding_data[1] # << >>) =>
         /\ fwd_geocoding_data[1][1] = Irvine =>
              target_location[1] = << Val(336400, 1), Val(0 - 1178000, 1) >>
         /\ fwd_geocoding_data[1][1] = Sydney =>
              target_location[1] = << Val(0 - 338000, 1), Val(1512000, 1) >>
    /\ fwd_geocoding_data = Some(<< >>) =>
         /\ target_location = None
         /\ pc \in {"fwd_locate", "raised"}
         /\ pc = "raised" => raised = "IndexError"
         /\ Len(fetch_log) = 1
         /\ output = << >>

\* The run located the first of two candidates.
C10_Witness ==
    /\ target_location # None
    /\ fwd_geocoding_data[1] = << Sydney, Irvine >>

\* The run ended on an empty geocoding result.
C10_WitnessEmpty ==
    /\ fwd_geocoding_data = Some(<< >>)
    /\ pc = "raised"

\* C11: a result line is the start time of the selected period as the same
\* instant in UTC (offset removed, suffix Z), then the value to four
\* decimals, with '%' appended for HUMIDITY and PRECIPITATION and for no
\* other query; AIR MAX over 00:00-08:00 (70) and 01:00-08:00 (75) gives
\* 2023-01-01T09:00:00Z 75.0000.
C11_ResultLineForm ==
    (returned # None /\ query_results # << >>) =>
      LET f == returned[1]
          line == query_results[Len(query_results)]
          start == f.target_datetime[1]
      IN  /\ line.datetime.z = "Z"
          /\ line.datetime.h \in 0..23
          /\ line.datetime.d * 24 + line.datetime.h
               = start.d * 24 + start.h - start.off
          /\ \E j \in 1..f.length :
               start = forecast_data[1].periods[j].startTime
          /\ (line.suffix = "%") <=> (f.fn \in {"HUMIDITY", "PRECIPITATION"})
          /\ (line.suffix = "") <=> (f.fn \in {"AIR", "FEELS", "WIND"})
          /\ 2 * Abs(line.value * f.target[1].d - f.target[1].n) <= f.target[1].d
          /\ (/\ forecast_data = Some(NewYearForecast)
              /\ f.fn = "AIR" /\ f.scale = "F" /\ f.limit = "MAX" /\ f.length = 2) =>
               line = [datetime |-> [d |-> 1, h |-> 9, z |-> "Z"],
                       value |-> 75 * K, suffix |-> ""]

\* AIR MAX over the two hours of the new year forecast has returned.
C11_Witness ==
    /\ forecast_data = Some(NewYearForecast)
    /\ returned # None
    /\ returned[1].fn = "AIR"
    /\ returned[1].scale = "F"
    /\ returned[1].limit = "MAX"
    /\ returned[1].length = 2
    /\ Len(query_results) = 1

\* A humidity line whose UTC day is the day after the local one.
C11_WitnessNextDay ==
    /\ returned # None
    /\ returned[1].fn = "HUMIDITY"
    /\ Len(query_results) = 1
    /\ query_results[1].suffix = "%"
    /\ query_results[1].datetime.d = returned[1].target_datetime[1].d + 1

\* The number of lines the first k fetches printed through _print_error.
RECURSIVE ErrorLines(_)
ErrorLines(k) ==
    IF k = 0 THEN 0 ELSE ErrorLines(k - 1) + Len(fetch_log[k].printed)

\* The number of lines printed by _print_output and _print_attributions.
ReportLines == Len(output) - ErrorLines(Len(fetch_log))

\* C12: run_weather_ui fetches at most once from each source, in the order
\* forward geocoding, forecast, reverse geocoding; no query is computed
\* before all three fetches returned data; and once a fetch returns None the
\* run has ended, with no later fetch, no query computed and no TARGET,
\* FORECAST, result or attribution line printed.
C12_FetchOrder ==
    LET order == << "forward", "forecast", "reverse" >>
    IN  /\ Len(fetch_log) <= 3
        /\ \A k \in 1..Len(fetch_log) : fetch_log[k].source = order[k]
        /\ \A k \in 1..Len(fetch_log) - 1 :
             fetch_log[k].ret # None /\ fetch_log[k].exc = ""
        /\ (call # None \/ query_results # << >> \/ returned # None
              \/ pc \in {"queries", "print"}) =>
             /\ Len(fetch_log) = 3
             /\ \A k \in 1..3 : fetch_log[k].ret # None
        /\ \A k \in 1..Len(fetch_log) :
             (fetch_log[k].ret = None /\ fetch_log[k].exc = "") =>
               /\ k = Len(fetch_log)
               /\ pc = "done"
               /\ call = None
               /\ query_results = << >>
               /\ returned = None
               /\ ReportLines = 0
               /\ output = fetch_log[k].printed
        /\ ReportLines # 0 =>
             (pc = "done" /\ Len(fetch_log) = 3 /\ fetch_log[3].ret # None)

\* The forecast fetch returned None after the forward geocoding fetch
\* returned data, and the run has ended.
C12_Witness ==
    /\ Len(fetch_log) = 2
    /\ fetch_log[2].ret = None
    /\ fetch_log[2].exc = ""
    /\ pc = "done"

\* The index of the period a query selects in a window of n periods whose
\* values are items: the first one no other is above (MAX) or below (MIN).
Selected(items, n, limit) ==
    CHOOSE j \in 1..n :
      \A k \in 1..n :
        IF limit = "MAX"
        THEN (k < j => Gt(items[j][1], items[k][1])) /\ Ge(items[j][1], items[k][1])
        ELSE (k < j => Lt(items[j][1], items[k][1])) /\ Le(items[j][1], items[k][1])

\* The line a query gives on a forecast document by itself; None when it
\* raises (no known extractor is not a case of it).
Alone(query, data) ==
    LET fn == Dispatch(query)
        requested == QueryLength(query)
        n == IF requested < Len(data.periods) THEN requested ELSE Len(data.periods)
        items == [j \in 1..n |-> CurrItem(fn, data.periods[j], QueryScale(query))]
    IN  IF n <= 0 \/ \E j \in 1..n : items[j] = None THEN None
        ELSE LET j == Selected(items, n, QueryLimit(query))
             IN  Some([datetime |-> _datetime_to_utc(Some(data.periods[j].startTime))[1],
                       value |-> Format4(items[j][1]),
                       suffix |-> Suffix(fn)])

Answerable(query) == Dispatch(query) # ""

\* The queries _get_query_results has answered so far, in their order.
Answered == SelectSeq(SubSeq(weather_queries, 1, qi - 1), Answerable)

\* C13: evaluating a query leaves the forecast document as it was fetched,
\* and each result is the one its query gives by itself on that document,
\* whatever queries came before it; the same query twice gives the same
\* result twice.
C13_QueriesArePure ==
    /\ (Len(fetch_log) >= 2 /\ fetch_log[2].ret # None) =>
         forecast_data = fetch_log[2].ret
    /\ Len(query_results) = Len(Answered)
    /\ \A k \in 1..Len(query_results) :
         /\ Alone(Answered[k], forecast_data[1]) # None
         /\ query_results[k] = Alone(Answered[k], forecast_data[1])[1]
    /\ \A j, k \in 1..Len(query_results) :
         Answered[j] = Answered[k] => query_results[j] = query_results[k]

\* Two different queries have been answered, the second on a document the
\* first one scanned.
C13_Witness ==
    /\ Len(query_results) = 2
    /\ Dispatch(Answered[1]) = "HUMIDITY"
    /\ Dispatch(Answered[2]) = "AIR"
    /\ pc = "print"

\* The same query has been answered twice.
C13_WitnessRepeat ==
    /\ Len(query_results) = 2
    /\ Answered[1] = Answered[2]

\* C14: an AIR or FEELS query selects the same period, hence the same
\* timestamp, for scale C as for scale F on the same forecast, window and
\* limit: the period selected is the one the Fahrenheit values select, and
\* the value reported for scale C is the Celsius of that period's
\* Fahrenheit value.
C14_ScaleKeepsSelection ==
    \A b \in Frames :
      LET f == b[1]
          periods == forecast_data[1].periods
          fahrenheit == [j \in 1..f.i |-> CurrItem(f.fn, periods[j], "F")]
      IN  (f.fn \in {"AIR", "FEELS"} /\ f.i >= 1) =>
            LET j == Selected(fahrenheit, f.i, f.limit)
            IN  /\ f.target_datetime[1] = periods[j].startTime
                /\ f.scale = "F" => f.target[1] = fahrenheit[j][1]
                /\ f.scale = "C" =>
                     /\ f.target[1].d = 9
                     /\ f.target[1].n = (fahrenheit[j][1].n - 32 * K) * 5

\* A feels-like query in Celsius returned a period other than the first of
\* three whose feels-like values differ.
C14_Witness ==
    /\ returned # None
    /\ returned[1].fn = "FEELS"
    /\ returned[1].scale = "C"
    /\ returned[1].length = 3
    /\ returned[1].target_datetime[1] # forecast_data[1].periods[1].startTime
    /\ Cardinality({ Items(returned[1])[j] : j \in 1..3 }) = 3

====
